---- MODULE Spec2Model ----
(***************************************************************************)
(* Model of install.py, the installer that links the commands, skills and  *)
(* agents of a source tree into a destination tree.                        *)
(*                                                                         *)
(* The filesystem is the shared state: the source tree (read only), the    *)
(* three category directories under the destination root and the entry   *)
(* at every destination path an artifact can have.  The program state is   *)
(* the list of categories with their items, and the results shown last.    *)
(*                                                                         *)
(* Two specifications share the definitions.  In Spec every handler is one *)
(* step and other processes change the destination tree between handlers.  *)
(* In SpecRace apply_changes runs one filesystem call per step, and the    *)
(* other processes change the destination tree between any two of them.    *)
(***************************************************************************)
EXTENDS Integers, Sequences, FiniteSets, TLC

VARIABLES source, dirs, dest, categories, results, pc, cur, hist

vars == <<source, dirs, dest, categories, results, pc, cur, hist>>

(* Number of changes other processes make to the destination tree in one   *)
(* behaviour.                                                              *)
MaxExt == 1

----------------------------------------------------------------------------
(* Names.  A name is a string; Chars gives its characters (code points),   *)
(* which is what glob, stem and the ordering of paths work on.             *)

Strings == {"write.md", "write-plan.md", "notes.txt", "review.md",
            "tdd", "draft", "write", "write-plan", "notes", "review"}

Chars(s) ==
  CASE s = "write.md"      -> <<119, 114, 105, 116, 101, 46, 109, 100>>
    [] s = "write-plan.md" -> <<119, 114, 105, 116, 101, 45, 112, 108, 97, 110, 46, 109, 100>>
    [] s = "notes.txt"     -> <<110, 111, 116, 101, 115, 46, 116, 120, 116>>
    [] s = "review.md"     -> <<114, 101, 118, 105, 101, 119, 46, 109, 100>>
    [] s = "tdd"           -> <<116, 100, 100>>
    [] s = "draft"         -> <<100, 114, 97, 102, 116>>
    [] s = "write"         -> <<119, 114, 105, 116, 101>>
    [] s = "write-plan"    -> <<119, 114, 105, 116, 101, 45, 112, 108, 97, 110>>
    [] s = "notes"         -> <<110, 111, 116, 101, 115>>
    [] s = "review"        -> <<114, 101, 118, 105, 101, 119>>

Str(cs) == CHOOSE s \in Strings : Chars(s) = cs

(* Index of the last '.' of a name, 0 when it has none.                    *)
LastDot(cs) ==
  LET D == {i \in 1..Len(cs) : cs[i] = 46}
  IN  IF D = {} THEN 0 ELSE CHOOSE i \in D : \A j \in D : j <= i

(* Path.stem: the name without its last suffix.                            *)
Stem(f) ==
  LET cs == Chars(f)
      i  == LastDot(cs)
  IN  IF 1 < i /\ i < Len(cs) THEN Str(SubSeq(cs, 1, i - 1)) ELSE f

(* glob("*.md"): the names that end in ".md".                              *)
GlobMd(f) ==
  LET cs == Chars(f)
      n  == Len(cs)
  IN  n >= 3 /\ SubSeq(cs, n - 2, n) = <<46, 109, 100>>

(* Order of two paths of one directory: the order of their names,          *)
(* character by character.                                                 *)
RECURSIVE LexLess(_, _)
LexLess(a, b) ==
  IF b = <<>> THEN FALSE
  ELSE IF a = <<>> THEN TRUE
  ELSE IF Head(a) # Head(b) THEN Head(a) < Head(b)
  ELSE LexLess(Tail(a), Tail(b))

PathLess(f, g) == LexLess(Chars(f), Chars(g))

(* sorted(...) of a set of names of one directory.                         *)
RECURSIVE SortedNames(_)
SortedNames(S) ==
  IF S = {} THEN <<>>
  ELSE LET m == CHOOSE x \in S : \A y \in S \ {x} : PathLess(x, y)
       IN  <<m>> \o SortedNames(S \ {m})

----------------------------------------------------------------------------
(* The source tree.  For each category: whether its subdirectory exists,   *)
(* and its entries (name, directory or file, SKILL.md inside or not).      *)

CategoryNames == <<"commands", "skills", "agents">>

CategorySet == {CategoryNames[i] : i \in 1..Len(CategoryNames)}

SrcEntry(n, d, m) == [name |-> n, isdir |-> d, marker |-> m]

NoDir == [exists |-> FALSE, entries |-> {}]

SrcDir(E) == [exists |-> TRUE, entries |-> E]

SourceTrees ==
  { [commands |-> SrcDir({SrcEntry("write.md", FALSE, FALSE),
                          SrcEntry("write-plan.md", FALSE, FALSE),
                          SrcEntry("notes.txt", FALSE, FALSE)}),
     skills   |-> SrcDir({SrcEntry("draft", TRUE, FALSE)}),
     agents   |-> NoDir],
    [commands |-> SrcDir({SrcEntry("write.md", FALSE, FALSE)}),
     skills   |-> SrcDir({SrcEntry("tdd", TRUE, TRUE),
                          SrcEntry("draft", TRUE, FALSE)}),
     agents   |-> SrcDir({})],
    [commands |-> NoDir,
     skills   |-> SrcDir({SrcEntry("tdd", TRUE, TRUE)}),
     agents   |-> SrcDir({SrcEntry("review.md", FALSE, FALSE)})] }

SourcePath(c, f) == <<"src", c, f>>

DestPath(c, f) == <<"dst", c, f>>

(* The destination paths an artifact of some source tree can have.         *)
DestPaths ==
  { DestPath("commands", "write.md"), DestPath("commands", "write-plan.md"),
    DestPath("skills", "tdd"), DestPath("agents", "review.md") }

----------------------------------------------------------------------------
(* The destination tree.  dirs[c] is what is at <dest>/<c>; dest[p] is     *)
(* what is at the destination path p.                                      *)

DirKinds == {"absent", "dir", "rodir", "file"}

Kinds == {"absent", "file", "dir", "link_src", "link_other",
          "link_dangling", "link_loop"}

LinkKinds == {"link_src", "link_other", "link_dangling", "link_loop"}

FS(d, e) == [dirs |-> d, dest |-> e]

(* Path.exists(): follows links; false for a dangling link or a loop.      *)
Exists(st, p) == st.dest[p] \in {"file", "dir", "link_src", "link_other"}

(* Path.is_symlink()                                                       *)
IsSymlink(st, p) == st.dest[p] \in LinkKinds

(* Path.resolve() of a destination path.                                   *)
Resolve(st, p) ==
  CASE st.dest[p] = "link_src"      -> [ok |-> TRUE, path |-> SourcePath(p[2], p[3])]
    [] st.dest[p] = "link_other"    -> [ok |-> TRUE, path |-> <<"tmp", "other", "x">>]
    [] st.dest[p] = "link_dangling" -> [ok |-> TRUE, path |-> <<"tmp", "gone", "x">>]
    [] st.dest[p] = "link_loop"     -> [ok |-> FALSE, err |-> <<"Symlink loop from", p>>]
    [] OTHER                        -> [ok |-> TRUE, path |-> p]

(* Path.resolve() of a source path: the source tree holds no links.        *)
ResolveSource(sp) == sp

(* dest_dir.mkdir(parents=True, exist_ok=True)                             *)
Mkdir(st, c) ==
  CASE st.dirs[c] = "absent" -> [ok |-> TRUE, st |-> FS([st.dirs EXCEPT ![c] = "dir"], st.dest)]
    [] st.dirs[c] = "file"   -> [ok |-> FALSE, st |-> st, err |-> <<"File exists", <<"dst", c>>>>]
    [] OTHER                 -> [ok |-> TRUE, st |-> st]

(* A symlink_to that replaces what is at the path, as ln -sf does.         *)
SymlinkToOverwrite(st, p) ==
  IF st.dirs[p[2]] \in {"absent", "file"}
  THEN [ok |-> FALSE, st |-> st, err |-> <<"No such file or directory", p>>]
  ELSE [ok |-> TRUE, st |-> FS(st.dirs, [st.dest EXCEPT ![p] = "link_src"])]

(* A symlink_to given another target than the source path.                 *)
SymlinkToWrongTarget(st, p) ==
  IF st.dirs[p[2]] \in {"absent", "file"}
  THEN [ok |-> FALSE, st |-> st, err |-> <<"No such file or directory", p>>]
  ELSE IF st.dest[p] # "absent"
  THEN [ok |-> FALSE, st |-> st, err |-> <<"File exists", p>>]
  ELSE IF st.dirs[p[2]] = "rodir"
  THEN [ok |-> FALSE, st |-> st, err |-> <<"Permission denied", p>>]
  ELSE [ok |-> TRUE, st |-> FS(st.dirs, [st.dest EXCEPT ![p] = "link_other"])]

(* dest_path.symlink_to(source_path): symlink(2) never replaces an entry.   *)
SymlinkTo(st, p) ==
  IF st.dirs[p[2]] \in {"absent", "file"}
  THEN [ok |-> FALSE, st |-> st, err |-> <<"No such file or directory", p>>]
  ELSE IF st.dest[p] # "absent"
  THEN [ok |-> FALSE, st |-> st, err |-> <<"File exists", p>>]
  ELSE IF st.dirs[p[2]] = "rodir"
  THEN [ok |-> FALSE, st |-> st, err |-> <<"Permission denied", p>>]
  ELSE [ok |-> TRUE, st |-> FS(st.dirs, [st.dest EXCEPT ![p] = "link_src"])]

(* An unlink that returns without removing the entry.                      *)
UnlinkNoop(st, p) ==
  IF st.dest[p] = "absent"
  THEN [ok |-> FALSE, st |-> st, err |-> <<"No such file or directory", p>>]
  ELSE [ok |-> TRUE, st |-> st]

(* dest_path.unlink(): removes a file or a link, whatever it is; fails on  *)
(* a directory and in a directory that cannot be written.                  *)
Unlink(st, p) ==
  IF st.dest[p] = "absent"
  THEN [ok |-> FALSE, st |-> st, err |-> <<"No such file or directory", p>>]
  ELSE IF st.dirs[p[2]] = "rodir"
  THEN [ok |-> FALSE, st |-> st, err |-> <<"Permission denied", p>>]
  ELSE IF st.dest[p] = "dir"
  THEN [ok |-> FALSE, st |-> st, err |-> <<"Is a directory", p>>]
  ELSE [ok |-> TRUE, st |-> FS(st.dirs, [st.dest EXCEPT ![p] = "absent"])]

----------------------------------------------------------------------------
(* Items and their classification.                                         *)

None == <<>>

NewItem(n, c, f) ==
  [name |-> n, category |-> c, source_path |-> SourcePath(c, f),
   dest_path |-> DestPath(c, f), status |-> "not_installed",
   selected |-> FALSE, error_message |-> None]

(* A classification that sets a detail on a conflict and never clears one. *)
CheckStatusKeepDetail(st, item) ==
  LET p == item.dest_path
  IN  IF ~Exists(st, p) /\ ~IsSymlink(st, p)
      THEN [item EXCEPT !.status = "not_installed"]
      ELSE IF IsSymlink(st, p)
      THEN LET target   == Resolve(st, p)
               expected == ResolveSource(item.source_path)
           IN  IF ~target.ok
               THEN [item EXCEPT !.status = "conflict",
                                 !.error_message = target.err]
               ELSE IF target.path = expected
               THEN [item EXCEPT !.status = "installed"]
               ELSE [item EXCEPT !.status = "conflict",
                                 !.error_message =
                                   <<"Symlink points to", target.path, "expected", expected>>]
      ELSE [item EXCEPT !.status = "conflict",
                        !.error_message = <<"Path exists but is not a symlink", p>>]

(* A classification that swallows a failure of resolve() and leaves the    *)
(* item as it was.                                                         *)
CheckStatusSwallow(st, item) ==
  LET p == item.dest_path
  IN  IF ~Exists(st, p) /\ ~IsSymlink(st, p)
      THEN [item EXCEPT !.status = "not_installed", !.error_message = None]
      ELSE IF IsSymlink(st, p)
      THEN LET target   == Resolve(st, p)
               expected == ResolveSource(item.source_path)
           IN  IF ~target.ok
               THEN item
               ELSE IF target.path = expected
               THEN [item EXCEPT !.status = "installed",
                                 !.error_message = None]
               ELSE [item EXCEPT !.status = "conflict",
                                 !.error_message =
                                   <<"Symlink points to", target.path, "expected", expected>>]
      ELSE [item EXCEPT !.status = "conflict",
                        !.error_message = <<"Path exists but is not a symlink", p>>]

(* A classification whose first test looks only at exists(): a link whose  *)
(* target is gone then counts as nothing there.                            *)
CheckStatusExistsOnly(st, item) ==
  LET p == item.dest_path
  IN  IF ~Exists(st, p)
      THEN [item EXCEPT !.status = "not_installed", !.error_message = None]
      ELSE IF IsSymlink(st, p)
      THEN LET target   == Resolve(st, p)
               expected == ResolveSource(item.source_path)
           IN  IF ~target.ok
               THEN [item EXCEPT !.status = "conflict",
                                 !.error_message = target.err]
               ELSE IF target.path = expected
               THEN [item EXCEPT !.status = "installed",
                                 !.error_message = None]
               ELSE [item EXCEPT !.status = "conflict",
                                 !.error_message =
                                   <<"Symlink points to", target.path, "expected", expected>>]
      ELSE [item EXCEPT !.status = "conflict",
                        !.error_message = <<"Path exists but is not a symlink", p>>]

(* Item.check_status                                                       *)
CheckStatus(st, item) ==
  LET p == item.dest_path
  IN  IF ~Exists(st, p) /\ ~IsSymlink(st, p)
      THEN [item EXCEPT !.status = "not_installed", !.error_message = None]
      ELSE IF IsSymlink(st, p)
      THEN LET target   == Resolve(st, p)
               expected == ResolveSource(item.source_path)
           IN  IF ~target.ok
               THEN [item EXCEPT !.status = "conflict",
                                 !.error_message = target.err]
               ELSE IF target.path = expected
               THEN [item EXCEPT !.status = "installed",
                                 !.error_message = None]
               ELSE [item EXCEPT !.status = "conflict",
                                 !.error_message =
                                   <<"Symlink points to", target.path, "expected", expected>>]
      ELSE [item EXCEPT !.status = "conflict",
                        !.error_message = <<"Path exists but is not a symlink", p>>]

(* A selection that ignores the status.                                    *)
SelectNothing(item) == [item EXCEPT !.selected = FALSE]

(* item.selected = item.status == ItemStatus.INSTALLED                     *)
SelectInstalled(item) == [item EXCEPT !.selected = (item.status = "installed")]

(* The artifacts of one category, in the order discover_items visits them. *)
CategoryFiles(src, c) ==
  IF c = "skills"
  THEN LET all == SortedNames({e.name : e \in src[c].entries})
           ok(f) == \E e \in src[c].entries : e.name = f /\ e.isdir /\ e.marker
       IN  SelectSeq(all, ok)
  ELSE SortedNames({e.name : e \in {x \in src[c].entries : GlobMd(x.name)}})

ItemName(c, f) == IF c = "skills" THEN f ELSE Stem(f)

CategoryItems(src, st, c) ==
  LET fs == CategoryFiles(src, c)
  IN  [i \in 1..Len(fs) |->
         SelectInstalled(CheckStatus(st, NewItem(ItemName(c, fs[i]), c, fs[i])))]

(* A discovery that keeps a category whose directory exists, artifacts or  *)
(* not.                                                                    *)
RECURSIVE DiscoverFromKeepEmpty(_, _, _)
DiscoverFromKeepEmpty(src, st, k) ==
  IF k > Len(CategoryNames) THEN <<>>
  ELSE LET c     == CategoryNames[k]
           items == IF src[c].exists THEN CategoryItems(src, st, c) ELSE <<>>
           rest  == DiscoverFromKeepEmpty(src, st, k + 1)
       IN  IF src[c].exists THEN <<[name |-> c, items |-> items]>> \o rest
           ELSE rest

(* discover_items                                                          *)
RECURSIVE DiscoverFrom(_, _, _)
DiscoverFrom(src, st, k) ==
  IF k > Len(CategoryNames) THEN <<>>
  ELSE LET c     == CategoryNames[k]
           items == IF src[c].exists THEN CategoryItems(src, st, c) ELSE <<>>
           rest  == DiscoverFrom(src, st, k + 1)
       IN  IF items # <<>> THEN <<[name |-> c, items |-> items]>> \o rest
           ELSE rest

DiscoverItems(src, st) == DiscoverFrom(src, st, 1)

(* Category.all_selected                                                   *)
AllSelected(cat) == \A i \in 1..Len(cat.items) : cat.items[i].selected

----------------------------------------------------------------------------
(* Results of apply_changes.                                               *)

ItemRef(item) ==
  [category |-> item.category, name |-> item.name, dest_path |-> item.dest_path]

(* OperationResult                                                         *)
OperationResult(item, action, success, message) ==
  [item |-> ItemRef(item), action |-> action, success |-> success,
   message |-> message]

(* An _install_item without the existence check, replacing the entry.      *)
InstallItemForce(st, item, dest_dir) ==
  LET p == item.dest_path
      m == Mkdir(st, dest_dir)
  IN  IF ~m.ok
      THEN [st |-> st, result |-> OperationResult(item, "install", FALSE, m.err)]
      ELSE LET s == SymlinkToOverwrite(m.st, p)
           IN  IF s.ok
               THEN [st |-> s.st,
                     result |-> OperationResult(item, "install", TRUE,
                                  <<"Created symlink", p, item.source_path>>)]
               ELSE [st |-> s.st,
                     result |-> OperationResult(item, "install", FALSE, s.err)]

(* _install_item                                                           *)
InstallItem(st, item, dest_dir) ==
  LET p == item.dest_path
      m == Mkdir(st, dest_dir)
  IN  IF ~m.ok
      THEN [st |-> st, result |-> OperationResult(item, "install", FALSE, m.err)]
      ELSE IF Exists(m.st, p) \/ IsSymlink(m.st, p)
      THEN [st |-> m.st,
            result |-> OperationResult(item, "install", FALSE,
                         <<"Destination already exists", p>>)]
      ELSE LET s == SymlinkTo(m.st, p)
           IN  IF s.ok
               THEN [st |-> s.st,
                     result |-> OperationResult(item, "install", TRUE,
                                  <<"Created symlink", p, item.source_path>>)]
               ELSE [st |-> s.st,
                     result |-> OperationResult(item, "install", FALSE, s.err)]

(* An _uninstall_item without the two verifications.                       *)
UninstallItemNoVerify(st, item) ==
  LET p == item.dest_path
      u == Unlink(st, p)
  IN  IF u.ok
      THEN [st |-> u.st,
            result |-> OperationResult(item, "uninstall", TRUE,
                         <<"Removed symlink", p>>)]
      ELSE [st |-> u.st,
            result |-> OperationResult(item, "uninstall", FALSE, u.err)]

(* _uninstall_item                                                         *)
UninstallItem(st, item) ==
  LET p == item.dest_path
  IN  IF ~IsSymlink(st, p)
      THEN [st |-> st,
            result |-> OperationResult(item, "uninstall", FALSE,
                         <<"Not a symlink", p>>)]
      ELSE LET target   == Resolve(st, p)
               expected == ResolveSource(item.source_path)
           IN  IF ~target.ok
               THEN [st |-> st,
                     result |-> OperationResult(item, "uninstall", FALSE, target.err)]
               ELSE IF target.path # expected
               THEN [st |-> st,
                     result |-> OperationResult(item, "uninstall", FALSE,
                                  <<"Symlink points elsewhere", target.path>>)]
               ELSE LET u == Unlink(st, p)
                    IN  IF u.ok
                        THEN [st |-> u.st,
                              result |-> OperationResult(item, "uninstall", TRUE,
                                           <<"Removed symlink", p>>)]
                        ELSE [st |-> u.st,
                              result |-> OperationResult(item, "uninstall", FALSE, u.err)]

(* The branch apply_changes takes for one item.                            *)
(* A first branch that tests the selection alone.                          *)
BranchSelectedOnly(item) ==
  IF item.selected THEN "install"
  ELSE IF ~item.selected /\ item.status = "installed" THEN "uninstall"
  ELSE IF item.selected /\ item.status = "conflict" THEN "refuse_install"
  ELSE IF ~item.selected /\ item.status = "conflict" THEN "refuse_uninstall"
  ELSE "none"

Branch(item) ==
  IF item.selected /\ item.status # "installed" THEN "install"
  ELSE IF ~item.selected /\ item.status = "installed" THEN "uninstall"
  ELSE IF item.selected /\ item.status = "conflict" THEN "refuse_install"
  ELSE IF ~item.selected /\ item.status = "conflict" THEN "refuse_uninstall"
  ELSE "none"

(* A loop body that never uninstalls.                                      *)
ApplyItemInstallOnly(st, item, dest_dir) ==
  LET b == Branch(item)
  IN  CASE b = "install" ->
             LET r == InstallItem(st, item, dest_dir)
             IN  [st |-> r.st, results |-> <<r.result>>]
        [] b = "refuse_install" ->
             [st |-> st,
              results |-> <<OperationResult(item, "install", FALSE,
                              <<"Cannot install", item.error_message>>)>>]
        [] b = "refuse_uninstall" ->
             [st |-> st,
              results |-> <<OperationResult(item, "uninstall", FALSE,
                              <<"Cannot uninstall", item.error_message>>)>>]
        [] OTHER -> [st |-> st, results |-> <<>>]

(* The body of the loop over the items of apply_changes.                   *)
ApplyItem(st, item, dest_dir) ==
  LET b == Branch(item)
  IN  CASE b = "install" ->
             LET r == InstallItem(st, item, dest_dir)
             IN  [st |-> r.st, results |-> <<r.result>>]
        [] b = "uninstall" ->
             LET r == UninstallItem(st, item)
             IN  [st |-> r.st, results |-> <<r.result>>]
        [] b = "refuse_install" ->
             [st |-> st,
              results |-> <<OperationResult(item, "install", FALSE,
                              <<"Cannot install", item.error_message>>)>>]
        [] b = "refuse_uninstall" ->
             [st |-> st,
              results |-> <<OperationResult(item, "uninstall", FALSE,
                              <<"Cannot uninstall", item.error_message>>)>>]
        [] OTHER -> [st |-> st, results |-> <<>>]

(* dest_dir of a category; "" for a name apply_changes skips.              *)
DestDir(name) == IF name \in CategorySet THEN name ELSE ""

(* The items apply_changes visits, in order, as <<category, item>> indexes. *)
RECURSIVE PositionsFrom(_, _)
PositionsFrom(cats, k) ==
  IF k > Len(cats) THEN <<>>
  ELSE (IF DestDir(cats[k].name) = "" THEN <<>>
        ELSE [i \in 1..Len(cats[k].items) |-> <<k, i>>])
       \o PositionsFrom(cats, k + 1)

Positions(cats) == PositionsFrom(cats, 1)

ItemAt(cats, pos) == cats[pos[1]].items[pos[2]]

(* A loop that stops at the first failed result.                           *)
RECURSIVE ApplyFromAbort(_, _, _, _)
ApplyFromAbort(st, cats, k, acc) ==
  IF k > Len(Positions(cats)) THEN [st |-> st, results |-> acc]
  ELSE LET item == ItemAt(cats, Positions(cats)[k])
           r    == ApplyItem(st, item, DestDir(item.category))
       IN  IF r.results # <<>> /\ ~r.results[1].success
           THEN [st |-> r.st, results |-> acc \o r.results]
           ELSE ApplyFromAbort(r.st, cats, k + 1, acc \o r.results)

(* The loops over the categories and their items of apply_changes.         *)
RECURSIVE ApplyFrom(_, _, _, _)
ApplyFrom(st, cats, k, acc) ==
  IF k > Len(Positions(cats)) THEN [st |-> st, results |-> acc]
  ELSE LET item == ItemAt(cats, Positions(cats)[k])
           r    == ApplyItem(st, item, DestDir(item.category))
       IN  ApplyFrom(r.st, cats, k + 1, acc \o r.results)

(* A refresh that leaves the recorded statuses and selections as they are. *)
RefreshStatusKeep(st, cats) == cats

(* The refresh of the statuses that ends apply_changes.                    *)
RefreshStatus(st, cats) ==
  [k \in 1..Len(cats) |->
     [cats[k] EXCEPT !.items =
        [i \in 1..Len(cats[k].items) |->
           SelectInstalled(CheckStatus(st, cats[k].items[i]))]]]

----------------------------------------------------------------------------
(* History kept for the properties: what happened since the statuses were *)
(* last computed (nothing since a discovery, nothing since an apply, only  *)
(* toggles, or a change of the destination tree), the number of changes by *)
(* other processes, and for each destination path whether apply created    *)
(* the link that is there, or created and removed it.                      *)

Succeeded(rs, action, p) ==
  \E j \in 1..Len(rs) :
     rs[j].item.dest_path = p /\ rs[j].action = action /\ rs[j].success

NewOrigin(origin, rs) ==
  [p \in DestPaths |->
     IF Succeeded(rs, "install", p) THEN "installed"
     ELSE IF Succeeded(rs, "uninstall", p)
     THEN (IF origin[p] = "installed" THEN "roundtrip" ELSE "none")
     ELSE origin[p]]

HistInit ==
  [changed |-> "discovered", ext |-> 0, origin |-> [p \in DestPaths |-> "none"]]

HistDiscover == [hist EXCEPT !.changed = "discovered"]

HistToggle ==
  [hist EXCEPT !.changed = IF @ = "filesystem" THEN @ ELSE "selection"]

HistApplyEnd(rs) ==
  [hist EXCEPT !.changed = "applied", !.origin = NewOrigin(hist.origin, rs)]

HistExternal(P) ==
  [hist EXCEPT !.changed = "filesystem", !.ext = hist.ext + 1,
               !.origin = [p \in DestPaths |->
                             IF p \in P THEN "none" ELSE hist.origin[p]]]

----------------------------------------------------------------------------
(* The destination paths and categories of the artifacts of the source.    *)
ArtifactPaths ==
  {DestPath(c, f) : <<c, f>> \in
     {<<c, f>> \in CategorySet \X Strings :
        /\ source[c].exists
        /\ \E i \in 1..Len(CategoryFiles(source, c)) : CategoryFiles(source, c)[i] = f}}

ArtifactCategories == {p[2] : p \in ArtifactPaths}

(* The state after construction: no categories yet, nothing shown.  The    *)
(* destination root exists.  Either the destination tree is fresh (the     *)
(* category directories all there or all missing, nothing in them), or an  *)
(* earlier run or the user left one entry where an artifact goes: the link *)
(* to the artifact, or a file.                                             *)

Init ==
  /\ source \in SourceTrees
  /\ \/ /\ \E d \in {"absent", "dir"} : dirs = [c \in CategorySet |-> d]
        /\ dest = [p \in DestPaths |-> "absent"]
     \/ /\ dirs = [c \in CategorySet |-> "dir"]
        /\ \E q \in ArtifactPaths : \E k \in {"link_src", "file"} :
              dest = [p \in DestPaths |-> IF p = q THEN k ELSE "absent"]
  /\ categories = <<>>
  /\ results = <<>>
  /\ pc = "start"
  /\ cur = 0
  /\ hist = HistInit

(* on_mount: refresh_tree                                                  *)
Mount ==
  /\ pc = "start"
  /\ categories' = DiscoverItems(source, FS(dirs, dest))
  /\ pc' = "idle"
  /\ hist' = HistDiscover
  /\ UNCHANGED <<source, dirs, dest, results, cur>>

(* A refresh that also creates the missing category directories of the     *)
(* destination.                                                            *)
RefreshTreeMkdir ==
  /\ pc = "idle"
  /\ categories' = DiscoverItems(source, FS(dirs, dest))
  /\ results' = <<>>
  /\ hist' = HistDiscover
  /\ dirs' = [c \in CategorySet |-> IF dirs[c] = "absent" THEN "dir" ELSE dirs[c]]
  /\ UNCHANGED <<source, dest, pc, cur>>

(* on_refresh_pressed: refresh_tree, then show_results([])                 *)
RefreshTree ==
  /\ pc = "idle"
  /\ categories' = DiscoverItems(source, FS(dirs, dest))
  /\ results' = <<>>
  /\ hist' = HistDiscover
  /\ UNCHANGED <<source, dirs, dest, pc, cur>>

(* An item toggle that also forgets the detail of the item.                *)
ToggleItemClearsDetail ==
  /\ pc = "idle"
  /\ \E k \in 1..Len(categories) : \E i \in 1..Len(categories[k].items) :
        categories' = [categories EXCEPT ![k].items[i].selected = ~@,
                                         ![k].items[i].error_message = None]
  /\ hist' = HistToggle
  /\ UNCHANGED <<source, dirs, dest, results, pc, cur>>

(* _toggle_node on an item node                                            *)
ToggleItem ==
  /\ pc = "idle"
  /\ \E k \in 1..Len(categories) : \E i \in 1..Len(categories[k].items) :
        categories' = [categories EXCEPT ![k].items[i].selected = ~@]
  /\ hist' = HistToggle
  /\ UNCHANGED <<source, dirs, dest, results, pc, cur>>

(* _toggle_node on a category node                                         *)
ToggleCategory ==
  /\ pc = "idle"
  /\ \E k \in 1..Len(categories) :
        LET new_state == ~AllSelected(categories[k])
        IN  categories' =
              [categories EXCEPT ![k].items =
                 [i \in 1..Len(categories[k].items) |->
                    [categories[k].items[i] EXCEPT !.selected = new_state]]]
  /\ hist' = HistToggle
  /\ UNCHANGED <<source, dirs, dest, results, pc, cur>>

(* An apply whose uninstall removes what the link resolves to as well.     *)
ApplyUnlinkResolved ==
  /\ pc = "idle"
  /\ LET r == ApplyFrom(FS(dirs, dest), categories, 1, <<>>)
     IN  /\ dirs' = r.st.dirs
         /\ dest' = r.st.dest
         /\ categories' = RefreshStatus(r.st, categories)
         /\ results' = r.results
         /\ hist' = HistApplyEnd(r.results)
         /\ source' =
              [c \in CategorySet |->
                 [source[c] EXCEPT !.entries =
                    {e \in @ : ~Succeeded(r.results, "uninstall", DestPath(c, e.name))}]]
  /\ UNCHANGED <<pc, cur>>

(* apply_changes, as one step                                              *)
Apply ==
  /\ pc = "idle"
  /\ LET r == ApplyFrom(FS(dirs, dest), categories, 1, <<>>)
     IN  /\ dirs' = r.st.dirs
         /\ dest' = r.st.dest
         /\ categories' = RefreshStatus(r.st, categories)
         /\ results' = r.results
         /\ hist' = HistApplyEnd(r.results)
  /\ UNCHANGED <<source, pc, cur>>

(* Another process replaces the entry at a destination path.               *)
ExtEntry ==
  /\ hist.ext < MaxExt
  /\ \E p \in ArtifactPaths : \E k \in Kinds :
        /\ dirs[p[2]] \in {"dir", "rodir"}
        /\ k # dest[p]
        /\ dest' = [dest EXCEPT ![p] = k]
        /\ hist' = HistExternal({p})
  /\ UNCHANGED <<source, dirs, categories, results, pc, cur>>

(* Another process replaces a category directory of the destination; what  *)
(* was in a directory goes with it.                                        *)
ExtDir ==
  /\ hist.ext < MaxExt
  /\ \E c \in ArtifactCategories : \E d \in DirKinds :
        /\ d # dirs[c]
        /\ dirs' = [dirs EXCEPT ![c] = d]
        /\ dest' = [p \in DestPaths |->
                      IF p[2] = c /\ d \in {"absent", "file"} THEN "absent"
                      ELSE dest[p]]
        /\ hist' = HistExternal({p \in DestPaths : p[2] = c})
  /\ UNCHANGED <<source, categories, results, pc, cur>>

Next ==
  \/ Mount
  \/ RefreshTree
  \/ ToggleItem
  \/ ToggleCategory
  \/ Apply
  \/ ExtEntry
  \/ ExtDir

Spec == Init /\ [][Next]_vars

----------------------------------------------------------------------------
(* apply_changes one filesystem call at a time.  cur is the index of the   *)
(* item of the loop; pc is the call the handler is about to make.          *)

CurItem == ItemAt(categories, Positions(categories)[cur])

Emit(r) ==
  /\ results' = Append(results, r)
  /\ cur' = cur + 1
  /\ pc' = "loop"

ApplyBegin ==
  /\ pc = "idle"
  /\ results' = <<>>
  /\ cur' = 1
  /\ pc' = "loop"
  /\ UNCHANGED <<source, dirs, dest, categories, hist>>

(* The head of the loop: the branch for the next item, or the end.         *)
LoopStep ==
  /\ pc = "loop"
  /\ IF cur > Len(Positions(categories))
     THEN /\ pc' = "refresh"
          /\ UNCHANGED <<results, cur>>
     ELSE LET b == Branch(CurItem)
          IN  CASE b = "install"   -> pc' = "install_mkdir" /\ UNCHANGED <<results, cur>>
                [] b = "uninstall" -> pc' = "uninstall_check" /\ UNCHANGED <<results, cur>>
                [] b = "refuse_install" ->
                     Emit(OperationResult(CurItem, "install", FALSE,
                            <<"Cannot install", CurItem.error_message>>))
                [] b = "refuse_uninstall" ->
                     Emit(OperationResult(CurItem, "uninstall", FALSE,
                            <<"Cannot uninstall", CurItem.error_message>>))
                [] OTHER -> cur' = cur + 1 /\ UNCHANGED <<results, pc>>
  /\ UNCHANGED <<source, dirs, dest, categories, hist>>

(* _install_item: dest_dir.mkdir                                           *)
InstallMkdir ==
  /\ pc = "install_mkdir"
  /\ LET m == Mkdir(FS(dirs, dest), DestDir(CurItem.category))
     IN  /\ dirs' = m.st.dirs
         /\ IF m.ok THEN pc' = "install_check" /\ UNCHANGED <<results, cur>>
            ELSE Emit(OperationResult(CurItem, "install", FALSE, m.err))
  /\ UNCHANGED <<source, dest, categories, hist>>

(* _install_item: dest_path.exists() or dest_path.is_symlink()             *)
InstallCheck ==
  /\ pc = "install_check"
  /\ LET p == CurItem.dest_path
     IN  IF Exists(FS(dirs, dest), p) \/ IsSymlink(FS(dirs, dest), p)
         THEN Emit(OperationResult(CurItem, "install", FALSE,
                     <<"Destination already exists", p>>))
         ELSE pc' = "install_link" /\ UNCHANGED <<results, cur>>
  /\ UNCHANGED <<source, dirs, dest, categories, hist>>

(* _install_item: dest_path.symlink_to(source_path)                        *)
InstallLink ==
  /\ pc = "install_link"
  /\ LET p == CurItem.dest_path
         s == SymlinkTo(FS(dirs, dest), p)
     IN  /\ dest' = s.st.dest
         /\ IF s.ok
            THEN Emit(OperationResult(CurItem, "install", TRUE,
                        <<"Created symlink", p, CurItem.source_path>>))
            ELSE Emit(OperationResult(CurItem, "install", FALSE, s.err))
  /\ UNCHANGED <<source, dirs, categories, hist>>

(* _uninstall_item: dest_path.is_symlink()                                 *)
UninstallCheck ==
  /\ pc = "uninstall_check"
  /\ LET p == CurItem.dest_path
     IN  IF ~IsSymlink(FS(dirs, dest), p)
         THEN Emit(OperationResult(CurItem, "uninstall", FALSE,
                     <<"Not a symlink", p>>))
         ELSE pc' = "uninstall_resolve" /\ UNCHANGED <<results, cur>>
  /\ UNCHANGED <<source, dirs, dest, categories, hist>>

(* _uninstall_item: the two resolve() and their comparison                 *)
UninstallResolve ==
  /\ pc = "uninstall_resolve"
  /\ LET target   == Resolve(FS(dirs, dest), CurItem.dest_path)
         expected == ResolveSource(CurItem.source_path)
     IN  IF ~target.ok
         THEN Emit(OperationResult(CurItem, "uninstall", FALSE, target.err))
         ELSE IF target.path # expected
         THEN Emit(OperationResult(CurItem, "uninstall", FALSE,
                     <<"Symlink points elsewhere", target.path>>))
         ELSE pc' = "uninstall_unlink" /\ UNCHANGED <<results, cur>>
  /\ UNCHANGED <<source, dirs, dest, categories, hist>>

(* _uninstall_item: dest_path.unlink()                                     *)
UninstallUnlink ==
  /\ pc = "uninstall_unlink"
  /\ LET p == CurItem.dest_path
         u == Unlink(FS(dirs, dest), p)
     IN  /\ dest' = u.st.dest
         /\ IF u.ok
            THEN Emit(OperationResult(CurItem, "uninstall", TRUE,
                        <<"Removed symlink", p>>))
            ELSE Emit(OperationResult(CurItem, "uninstall", FALSE, u.err))
  /\ UNCHANGED <<source, dirs, categories, hist>>

(* The refresh of the statuses and selections, then show_results.          *)
RefreshStep ==
  /\ pc = "refresh"
  /\ categories' = RefreshStatus(FS(dirs, dest), categories)
  /\ pc' = "idle"
  /\ cur' = 0
  /\ hist' = HistApplyEnd(results)
  /\ UNCHANGED <<source, dirs, dest, results>>

NextRace ==
  \/ Mount
  \/ RefreshTree
  \/ ToggleItem
  \/ ToggleCategory
  \/ ApplyBegin
  \/ LoopStep
  \/ InstallMkdir
  \/ InstallCheck
  \/ InstallLink
  \/ UninstallCheck
  \/ UninstallResolve
  \/ UninstallUnlink
  \/ RefreshStep
  \/ ExtEntry
  \/ ExtDir

SpecRace == Init /\ [][NextRace]_vars

----------------------------------------------------------------------------
(* Properties.                                                             *)

(* The step is an apply of Spec: only apply leaves this mark.              *)
Applied == pc = "idle" /\ hist'.changed = "applied"

(* Nothing happened since the statuses were computed.                      *)
Classified == hist.changed \in {"discovered", "applied"}

ItemsOf(cats) ==
  {ItemAt(cats, Positions(cats)[k]) : k \in 1..Len(Positions(cats))}

ItemWith(cats, p) == CHOOSE item \in ItemsOf(cats) : item.dest_path = p

ResultsFor(rs, p) == {j \in 1..Len(rs) : rs[j].item.dest_path = p}

AllSucceeded(rs) == \A j \in 1..Len(rs) : rs[j].success

WithSelections(cats, sel) ==
  [k \in 1..Len(cats) |->
     [cats[k] EXCEPT !.items =
        [i \in 1..Len(cats[k].items) |->
           [cats[k].items[i] EXCEPT !.selected = sel[k][i]]]]]

Selections(cats) ==
  [k \in 1..Len(cats) |-> [i \in 1..Len(cats[k].items) |-> cats[k].items[i].selected]]

(* C1: when apply runs between changes of other processes, its Uninstall   *)
(* removes the entry at destPath only if that entry is, at that moment, a  *)
(* link resolving to sourcePath; for anything else at destPath (nothing, a *)
(* real file or directory, a link elsewhere) it emits a failed Uninstall   *)
(* result and leaves the entry as it is, although the recorded status was  *)
(* Installed.                                                              *)
C1_UninstallOnlyVerifiedLink ==
  [][Applied =>
       /\ \A item \in ItemsOf(categories) :
            (Branch(item) = "uninstall" /\ dest[item.dest_path] # "link_src")
            => /\ dest'[item.dest_path] = dest[item.dest_path]
               /\ \E j \in ResultsFor(results', item.dest_path) :
                     results'[j].action = "uninstall" /\ ~results'[j].success
       /\ \A p \in DestPaths :
            (dest[p] # "absent" /\ dest'[p] = "absent") => dest[p] = "link_src"]_vars

C1_Witness ==
  /\ hist.changed = "applied"
  /\ \E j \in 1..Len(results) :
        /\ results[j].action = "uninstall"
        /\ ~results[j].success
        /\ results[j].message[1] = "Not a symlink"
        /\ dest[results[j].item.dest_path] = "file"

(* C2: with other processes changing the destination tree between the     *)
(* calls of Uninstall, the removal never removes an entry that is, at the  *)
(* instant of the removal, anything but a link resolving to sourcePath.    *)
C2_RemovalOnlyOfLinkUnderRace ==
  [][UninstallUnlink =>
       \A p \in DestPaths : dest'[p] # dest[p] => dest[p] = "link_src"]_vars

(* C3: Install never replaces anything: when the entry at destPath is not  *)
(* absent at the existence check or at the creation of the link, the step  *)
(* emits a failed Install result and changes nothing; the only change the  *)
(* steps of Install make to a destination path is from absent to the link  *)
(* to sourcePath.                                                          *)
C3_InstallNeverOverwrites ==
  [][/\ ((InstallCheck \/ InstallLink) /\ dest[CurItem.dest_path] # "absent")
        => /\ dest' = dest
           /\ results' = Append(results, results'[Len(results')])
           /\ results'[Len(results')].item.dest_path = CurItem.dest_path
           /\ results'[Len(results')].action = "install"
           /\ ~results'[Len(results')].success
     /\ (InstallMkdir \/ InstallCheck \/ InstallLink)
        => \A q \in DestPaths :
              dest'[q] # dest[q]
              => q = CurItem.dest_path /\ dest[q] = "absent" /\ dest'[q] = "link_src"]_vars

C3_Witness ==
  \E j \in 1..Len(results) :
     /\ results[j].action = "install"
     /\ ~results[j].success
     /\ results[j].message = <<"File exists", results[j].item.dest_path>>
     /\ dest[results[j].item.dest_path] \in {"file", "link_dangling"}

(* C4: for an artifact classified Conflict whose destination entry is as   *)
(* it was classified, apply emits exactly one result for it, a failed one, *)
(* whichever its selection, and leaves the entry as it is.                 *)
C4_ConflictNeverMutated ==
  [][Applied =>
       \A item \in ItemsOf(categories) :
          (item.status = "conflict" /\ CheckStatus(FS(dirs, dest), item) = item)
          => /\ Cardinality(ResultsFor(results', item.dest_path)) = 1
             /\ \A j \in ResultsFor(results', item.dest_path) : ~results'[j].success
             /\ dest'[item.dest_path] = dest[item.dest_path]]_vars

C4_Witness ==
  /\ hist.changed = "applied"
  /\ \E j \in 1..Len(results) :
        /\ results[j].action = "uninstall"
        /\ ~results[j].success
        /\ results[j].message[1] = "Cannot uninstall"
        /\ dest[results[j].item.dest_path] \in {"file", "dir", "link_other"}
        /\ results[j].message[2] =
             ItemWith(categories, results[j].item.dest_path).error_message

(* C5: for an artifact recorded Conflict and selected, apply does not run  *)
(* Install: it touches nothing of the filesystem for that artifact and     *)
(* emits one failed Install result whose message is the conflictDetail.    *)
C5_ConflictInstallRefusedWithDetail ==
  [][Applied =>
       \A item \in ItemsOf(categories) :
          (item.status = "conflict" /\ item.selected)
          => /\ Cardinality(ResultsFor(results', item.dest_path)) = 1
             /\ \A j \in ResultsFor(results', item.dest_path) :
                   /\ results'[j].action = "install"
                   /\ ~results'[j].success
                   /\ results'[j].message[1] = "Cannot install"
                   /\ results'[j].message[2] = item.error_message
             /\ dest'[item.dest_path] = dest[item.dest_path]
             /\ dirs'[item.category] = dirs[item.category]]_vars

(* C6: for an artifact whose recorded status is not Conflict, apply emits  *)
(* one Install result when it is NotInstalled and selected, one Uninstall  *)
(* result when it is Installed and not selected, and otherwise no result   *)
(* and no change of its destination entry; no artifact gets two results,   *)
(* and every result is for an artifact.                                    *)
C6_DecisionTable ==
  [][Applied =>
       /\ \A item \in ItemsOf(categories) :
            LET R == ResultsFor(results', item.dest_path)
            IN  /\ Cardinality(R) <= 1
                /\ item.status # "conflict"
                   => IF item.status = "not_installed" /\ item.selected
                      THEN Cardinality(R) = 1
                           /\ \A j \in R : results'[j].action = "install"
                      ELSE IF item.status = "installed" /\ ~item.selected
                      THEN Cardinality(R) = 1
                           /\ \A j \in R : results'[j].action = "uninstall"
                      ELSE R = {} /\ dest'[item.dest_path] = dest[item.dest_path]
       /\ \A j \in 1..Len(results') :
            \E item \in ItemsOf(categories) : ItemRef(item) = results'[j].item]_vars

C6_Witness ==
  /\ hist.changed = "applied"
  /\ \E j \in 1..Len(results) : results[j].action = "install" /\ results[j].success
  /\ \E j \in 1..Len(results) : results[j].action = "uninstall" /\ results[j].success

(* C7, as stated: an apply right after a discovery or an apply, with no    *)
(* toggle and no change by another process in between, emits no result and *)
(* changes nothing of the filesystem.                                      *)
C7_NoResultsAfterClassification ==
  [][(Applied /\ Classified)
     => results' = <<>> /\ dest' = dest /\ dirs' = dirs]_vars

(* C7, amended: such an apply changes nothing of the filesystem and emits  *)
(* no result for an artifact classified Installed or NotInstalled; for     *)
(* each artifact classified Conflict it emits exactly one result, a failed *)
(* Uninstall carrying the conflictDetail.                                  *)
C7_OnlyConflictRefusalsAfterClassification ==
  [][(Applied /\ Classified)
     => /\ dest' = dest
        /\ dirs' = dirs
        /\ \A item \in ItemsOf(categories) :
             LET R == ResultsFor(results', item.dest_path)
             IN  IF item.status = "conflict"
                 THEN /\ Cardinality(R) = 1
                      /\ \A j \in R :
                            /\ results'[j].action = "uninstall"
                            /\ ~results'[j].success
                            /\ results'[j].message = <<"Cannot uninstall", item.error_message>>
                 ELSE R = {}]_vars

C7_Witness ==
  /\ hist.changed = "applied"
  /\ results # <<>>
  /\ \A j \in 1..Len(results) : results[j].message[1] = "Cannot uninstall"
  /\ \E item \in ItemsOf(categories) : item.status = "installed"

(* C8: when no other process changed the destination tree since the        *)
(* statuses were computed and an apply emits only successful results, a    *)
(* second apply with the same selections emits no result and changes       *)
(* nothing of the filesystem.                                              *)
C8_ApplyIdempotent ==
  [][(Applied /\ hist.changed # "filesystem" /\ AllSucceeded(results'))
     => LET st2   == FS(dirs', dest')
            cats2 == WithSelections(categories', Selections(categories))
            r2    == ApplyFrom(st2, cats2, 1, <<>>)
        IN  r2.results = <<>> /\ r2.st = st2]_vars

C8_Witness ==
  /\ hist.changed = "applied"
  /\ hist.ext = 0
  /\ Len(results) >= 2
  /\ AllSucceeded(results)

(* C9: when apply removes, with a successful Uninstall, a link that a      *)
(* successful Install of apply created at an absent destPath, destPath is  *)
(* absent again, the status is NotInstalled and the selection is false.    *)
C9_RoundTrip ==
  [][Applied =>
       \A item \in ItemsOf(categories) :
          (hist.origin[item.dest_path] = "installed"
             /\ Succeeded(results', "uninstall", item.dest_path))
          => /\ dest'[item.dest_path] = "absent"
             /\ ItemWith(categories', item.dest_path).status = "not_installed"
             /\ ~ItemWith(categories', item.dest_path).selected]_vars

C9_Witness ==
  \E p \in DestPaths :
     /\ hist.origin[p] = "roundtrip"
     /\ hist.changed = "applied"
     /\ Succeeded(results, "uninstall", p)
     /\ dest[p] = "absent"

(* C10: one apply attempts every artifact whose status differs from its    *)
(* selection, whatever fails for the others: each gets exactly one result, *)
(* and what the successful results report is still in place at the end.    *)
C10_BatchIndependence ==
  [][Applied =>
       /\ \A item \in ItemsOf(categories) :
            Branch(item) # "none"
            => Cardinality(ResultsFor(results', item.dest_path)) = 1
       /\ \A j \in 1..Len(results') :
            results'[j].success
            => dest'[results'[j].item.dest_path] =
                 (IF results'[j].action = "install" THEN "link_src" ELSE "absent")]_vars

C10_Witness ==
  /\ hist.changed = "applied"
  /\ Len(results) = 2
  /\ ~results[1].success
  /\ results[1].message = <<"File exists", <<"dst", results[1].item.category>>>>
  /\ results[2].success

(* C11: classification gives every destination state exactly one status.   *)
(* Right after a discovery or an apply, an artifact is NotInstalled iff     *)
(* nothing is at destPath (it neither exists nor is a link), Installed iff  *)
(* destPath is a link resolving to sourcePath, and Conflict in every other  *)
(* case: a real file or directory, a link resolving elsewhere (to another   *)
(* entry or to nothing), or a link whose resolution fails.                  *)
C11_ClassificationPartition ==
  Classified =>
    \A item \in ItemsOf(categories) :
       LET k == dest[item.dest_path]
       IN  /\ item.status \in {"not_installed", "installed", "conflict"}
           /\ (item.status = "not_installed") <=> (k = "absent")
           /\ (item.status = "installed") <=> (k = "link_src")
           /\ (item.status = "conflict") <=>
                (k \in {"file", "dir", "link_other", "link_dangling", "link_loop"})

C11_Witness ==
  /\ Classified
  /\ \E item \in ItemsOf(categories) :
        /\ dest[item.dest_path] = "link_dangling"
        /\ item.status = "conflict"
  /\ \E item \in ItemsOf(categories) :
        /\ dest[item.dest_path] = "absent"
        /\ item.status = "not_installed"

(* The step is a discovery: on_mount or the refresh button.                *)
Discovered == pc' = "idle" /\ hist'.changed = "discovered"

(* C12: whenever discover or apply completes, every artifact's recorded     *)
(* status (and detail) is what classifying the filesystem of that moment    *)
(* gives, the effects of the batch included, and its selection is           *)
(* (status = Installed), whatever the selections were before and whichever  *)
(* operations failed.                                                       *)
C12_StatusAndSelectionFresh ==
  [][(Applied \/ Discovered) =>
       \A item \in ItemsOf(categories') :
          /\ CheckStatus(FS(dirs', dest'), item) = item
          /\ item.selected = (item.status = "installed")]_vars

(* An apply just ended in which the install of a selected item failed: the  *)
(* item is a conflict and no longer selected, while another artifact was    *)
(* installed by the same batch.                                             *)
C12_Witness ==
  /\ hist.changed = "applied"
  /\ \E j \in 1..Len(results) :
        /\ results[j].action = "install"
        /\ ~results[j].success
        /\ LET item == ItemWith(categories, results[j].item.dest_path)
           IN  item.status = "conflict" /\ ~item.selected
  /\ \E j \in 1..Len(results) :
        /\ results[j].action = "install"
        /\ results[j].success
        /\ ItemWith(categories, results[j].item.dest_path).status = "installed"

(* C13: apply achieves the desired selection.  When no other process has    *)
(* changed the destination tree since the statuses were computed, every     *)
(* artifact for which the apply emitted no failed result ends Installed if  *)
(* it was selected at the start of the apply and NotInstalled if it was     *)
(* not; a successful Install leaves the artifact classified Installed, and  *)
(* after a successful Uninstall nothing is at destPath.                     *)
C13_ApplyAchievesSelection ==
  [][(Applied /\ hist.changed # "filesystem") =>
       \A item \in ItemsOf(categories) :
          LET p      == item.dest_path
              after  == ItemWith(categories', p)
              failed == \E j \in ResultsFor(results', p) : ~results'[j].success
          IN  /\ ~failed =>
                   after.status = IF item.selected THEN "installed"
                                  ELSE "not_installed"
              /\ Succeeded(results', "install", p) =>
                   (after.status = "installed" /\ dest'[p] = "link_src")
              /\ Succeeded(results', "uninstall", p) =>
                   (dest'[p] = "absent" /\ after.status = "not_installed")]_vars

(* An apply, with no change by another process before it, that installed    *)
(* one artifact and uninstalled another.                                    *)
C13_Witness ==
  /\ hist.changed = "applied"
  /\ hist.ext = 0
  /\ \E j \in 1..Len(results) :
        /\ results[j].action = "install" /\ results[j].success
        /\ ItemWith(categories, results[j].item.dest_path).status = "installed"
  /\ \E j \in 1..Len(results) :
        /\ results[j].action = "uninstall" /\ results[j].success
        /\ dest[results[j].item.dest_path] = "absent"
        /\ ItemWith(categories, results[j].item.dest_path).status = "not_installed"

(* The step is the recomputation of the statuses that ends an apply.        *)
Recomputed == pc = "refresh" /\ pc' = "idle"

(* C14: discovery and classification are read-only.  A discover or refresh  *)
(* step and the recomputation of the statuses after an apply leave every    *)
(* entry of the source tree and of the destination tree as it was, and      *)
(* classifying the same unchanged filesystem again gives every artifact the *)
(* same status and conflictDetail (a second discovery gives the same        *)
(* categories).                                                             *)
C14_ClassificationReadOnly ==
  [][(Discovered \/ Recomputed) =>
       /\ source' = source
       /\ dirs' = dirs
       /\ dest' = dest
       /\ \A item \in ItemsOf(categories') :
            LET again == CheckStatus(FS(dirs', dest'), item)
            IN  again.status = item.status /\ again.error_message = item.error_message
       /\ Discovered => DiscoverItems(source', FS(dirs', dest')) = categories']_vars

(* A classification has run over a destination tree that holds a link to    *)
(* somewhere else and a missing category directory is still missing.        *)
C14_Witness ==
  /\ pc = "idle"
  /\ Classified
  /\ \E item \in ItemsOf(categories) :
        /\ dest[item.dest_path] = "link_other"
        /\ item.status = "conflict"
  /\ \E c \in CategorySet : dirs[c] = "absent"

(* C15: a failure of resolve() on one artifact's destination link during    *)
(* classification, in a discovery or in the recomputation after an apply,   *)
(* is not propagated: that artifact is a Conflict whose conflictDetail is   *)
(* the text of the error, every artifact of the source is classified, and   *)
(* the other artifacts get the status their own destination entry gives.    *)
C15_ResolveFailureIsConflict ==
  [][(Applied \/ Discovered) =>
       LET st     == FS(dirs', dest')
           failed == {item \in ItemsOf(categories') :
                        IsSymlink(st, item.dest_path)
                        /\ ~Resolve(st, item.dest_path).ok}
       IN  failed # {} =>
             /\ \A item \in failed :
                  /\ item.status = "conflict"
                  /\ item.error_message = Resolve(st, item.dest_path).err
             /\ {item.dest_path : item \in ItemsOf(categories')} = ArtifactPaths
             /\ \A item \in ItemsOf(categories') \ failed :
                  CheckStatus(st, item) = item]_vars

(* A classification met a link that cannot be resolved and went on to       *)
(* classify another artifact as installed.                                  *)
C15_Witness ==
  /\ Classified
  /\ pc = "idle"
  /\ \E item \in ItemsOf(categories) :
        /\ dest[item.dest_path] = "link_loop"
        /\ item.status = "conflict"
        /\ item.error_message = <<"Symlink loop from", item.dest_path>>
  /\ \E item \in ItemsOf(categories) :
        /\ dest[item.dest_path] = "link_src"
        /\ item.status = "installed"

(* The place of a category name in the fixed order.                         *)
CategoryIndex(c) == CHOOSE k \in 1..Len(CategoryNames) : CategoryNames[k] = c

(* The source subdirectory of category c holds an artifact: a directory     *)
(* with SKILL.md for skills, an entry named *.md for commands and agents.   *)
YieldsArtifact(c) ==
  /\ source[c].exists
  /\ \E e \in source[c].entries :
        IF c = "skills" THEN e.isdir /\ e.marker
        ELSE GlobMd(e.name)

(* C16: the categories discover returned are non-empty and in the order     *)
(* commands, skills, agents; a category appears iff its source subdirectory *)
(* exists and yields an artifact; every skill shown is a source             *)
(* subdirectory that holds SKILL.md.                                        *)
C16_OnlyNonEmptyCategoriesInOrder ==
  pc = "idle" =>
    /\ \A k \in 1..Len(categories) :
         /\ categories[k].name \in CategorySet
         /\ categories[k].items # <<>>
    /\ \A k, l \in 1..Len(categories) :
         k < l => CategoryIndex(categories[k].name) < CategoryIndex(categories[l].name)
    /\ \A c \in CategorySet :
         (\E k \in 1..Len(categories) : categories[k].name = c) <=> YieldsArtifact(c)
    /\ \A item \in ItemsOf(categories) :
         item.category = "skills" =>
           \E e \in source.skills.entries :
              e.name = item.name /\ e.isdir /\ e.marker

(* Commands and skills are shown, in that order; the agents directory       *)
(* exists and is not shown; the skills directory holds a subdirectory       *)
(* without SKILL.md that is not shown.                                      *)
C16_Witness ==
  /\ pc = "idle"
  /\ [k \in 1..Len(categories) |-> categories[k].name] = <<"commands", "skills">>
  /\ source.agents.exists
  /\ \E e \in source.skills.entries :
        /\ e.isdir /\ ~e.marker
        /\ \A item \in ItemsOf(categories) : item.name # e.name

(* C17: within each category the artifacts are in ascending order of their  *)
(* name (the name without its extension for commands and agents), for every *)
(* set of source file names, write.md beside write-plan.md included.        *)
C17_ItemsAscendingByName ==
  pc = "idle" =>
    \A k \in 1..Len(categories) :
       \A i, j \in 1..Len(categories[k].items) :
          i < j => LexLess(Chars(categories[k].items[i].name),
                           Chars(categories[k].items[j].name))

(* What discovery fixes: the categories, their order, and the name,         *)
(* category and paths of their items in order.                              *)
Identity(cats) ==
  [k \in 1..Len(cats) |->
     [name  |-> cats[k].name,
      items |-> [i \in 1..Len(cats[k].items) |->
                   [name        |-> cats[k].items[i].name,
                    category    |-> cats[k].items[i].category,
                    source_path |-> cats[k].items[i].source_path,
                    dest_path   |-> cats[k].items[i].dest_path]]]]

StatusAndDetail(cats) ==
  [k \in 1..Len(cats) |->
     [i \in 1..Len(cats[k].items) |->
        <<cats[k].items[i].status, cats[k].items[i].error_message>>]]

(* The step is a toggle: the categories change and no classification ran.   *)
Toggled == categories' # categories /\ hist'.changed \in {"selection", "filesystem"}

(* C18: between two discoveries no step (item toggle, category toggle,      *)
(* apply) changes an artifact's name, category, sourcePath or destPath, or  *)
(* the membership or order of a category; a toggle changes selections only, *)
(* never a status, a conflictDetail or the filesystem; no step but discover *)
(* and apply changes a status or a conflictDetail.                          *)
C18_IdentityImmutable ==
  [][(pc = "idle" /\ ~Discovered) =>
       /\ Identity(categories') = Identity(categories)
       /\ ~Applied => StatusAndDetail(categories') = StatusAndDetail(categories)
       /\ Toggled => /\ Selections(categories') # Selections(categories)
                     /\ source' = source
                     /\ dirs' = dirs
                     /\ dest' = dest]_vars

(* A toggle has selected an item that is a conflict: its status and detail  *)
(* are those of the classification.                                         *)
C18_Witness ==
  /\ hist.changed = "selection"
  /\ \E item \in ItemsOf(categories) :
        /\ item.status = "conflict"
        /\ item.selected
        /\ item.error_message = <<"Path exists but is not a symlink", item.dest_path>>
        /\ dest[item.dest_path] = "file"

(* C19: in every state after a classification an artifact has a             *)
(* conflictDetail if and only if its status is Conflict: a classification   *)
(* to Installed or NotInstalled clears an earlier detail, and every way to  *)
(* Conflict sets one.                                                       *)
C19_DetailIffConflict ==
  \A item \in ItemsOf(categories) :
     (item.error_message # None) <=> (item.status = "conflict")

(* An apply refused to uninstall an artifact because it was a conflict, and *)
(* its recomputation found the path free: the artifact is NotInstalled and  *)
(* has no detail.                                                           *)
C19_Witness ==
  /\ hist.changed = "applied"
  /\ \E j \in 1..Len(results) :
        /\ results[j].action = "uninstall"
        /\ ~results[j].success
        /\ results[j].message[1] = "Cannot uninstall"
        /\ LET item == ItemWith(categories, results[j].item.dest_path)
           IN  /\ item.status = "not_installed"
               /\ item.error_message = None

(* The step is one of the program, not of another process.                  *)
ProgramStep == hist'.ext = hist.ext

(* C20: no discover, toggle or apply creates, removes or modifies an entry  *)
(* of the source tree.  Such a step changes the destination tree only by    *)
(* creating a missing category directory, by adding the link to the source  *)
(* at a free destPath, or by removing that link; the source artifact is     *)
(* there after an uninstall as it was before.                               *)
C20_SourceTreeNeverModified ==
  [][ProgramStep =>
       /\ source' = source
       /\ \A c \in CategorySet :
            dirs'[c] # dirs[c] => (dirs[c] = "absent" /\ dirs'[c] = "dir")
       /\ \A p \in DestPaths :
            dest'[p] # dest[p] =>
              \/ dest[p] = "absent" /\ dest'[p] = "link_src"
              \/ dest[p] = "link_src" /\ dest'[p] = "absent"]_vars

(* An apply has uninstalled an artifact: nothing is at destPath, and the    *)
(* source directory still holds the artifact.                               *)
C20_Witness ==
  /\ hist.changed = "applied"
  /\ \E j \in 1..Len(results) :
        /\ results[j].action = "uninstall"
        /\ results[j].success
        /\ dest[results[j].item.dest_path] = "absent"
        /\ \E e \in source[results[j].item.category].entries :
              DestPath(results[j].item.category, e.name) = results[j].item.dest_path

============================================================================
